---- MODULE Spec2Model ----
(***************************************************************************)
(* Model of the apicentric verification scripts.                           *)
(*                                                                         *)
(*   src/test_api.py            the HTTP endpoint tester (Spec)            *)
(*   src/webui/record_demo.py   the mocked dashboard recording (SpecDemo)  *)
(*                                                                         *)
(* The server under test and the dashboard page are the environment: every *)
(* answer they can give is an input chosen with \E.                        *)
(***************************************************************************)
EXTENDS Integers, Sequences, FiniteSets, TLC

(***************************************************************************)
(* Bounds of the model.                                                    *)
(***************************************************************************)
\* wait_for_server is explored for every timeout in 0..MaxTimeout, and for
\* the default timeout that main uses.
MaxTimeout == 6
\* The dashboard page requests every path of at most MaxSegs segments, and
\* the paths the mocked routes are written for whatever their length.
MaxSegs == 2

(***************************************************************************)
(* Program constants of src/test_api.py.                                   *)
(***************************************************************************)
\* def wait_for_server(timeout=30)
DefaultTimeout == 30

\* Python's None, where a string is expected
None == "None"

\* Python's None, where a Response is expected
NoResponse == [kind |-> "None"]

\* exitStatus while the process is running
Running == -1

(***************************************************************************)
(* What the server can answer.                                             *)
(***************************************************************************)
Tokens == {"abc", "xyz"}

\* the value of the "token" member of a JSON object body
\*   "absent" no such member, "null" JSON null, "" the empty string
TokenFields == {"absent", "null", ""} \cup Tokens

\* the value of the "data" member of a JSON object body
\*   "absent"    no such member
\*   "number"    a JSON number or null: `"code" in` it raises
\*   "nocode"    an object, an array or a string without "code" in it
\*   "code"      an object with a "code" member that has a length
\*               (a string, an array, an object)
\*   "codenolen" an object with a "code" member that has no length
\*               (a number, null)
\*   "codeitem"  an array with the item "code", or a string that contains
\*               "code": it cannot be indexed by "code"
DataFields == {"absent", "number", "nocode", "code", "codenolen", "codeitem"}

\* the items of a JSON array body: "data" is one of them, or is not
ListItems == {"data", "other"}

\* Response bodies: text that is not JSON, a JSON array, a JSON number, or a
\* JSON object with the two members the script looks at.
Bodies ==
    {[kind |-> "invalid"], [kind |-> "number"]}
    \cup {[kind |-> "list", items |-> x] : x \in ListItems}
    \cup {[kind |-> "object", token |-> t, data |-> "absent"] : t \in TokenFields}
    \cup {[kind |-> "object", token |-> "absent", data |-> d] : d \in DataFields}

Statuses == {200, 201, 409}

\* What one HTTP exchange can come to: the transport raises (connection
\* refused, timeout, DNS failure) or a response arrives.
Outcomes ==
    {[kind |-> "transport"]}
    \cup {[kind |-> "response", status_code |-> s, body |-> b] :
            s \in Statuses, b \in Bodies}

\* What one liveness poll of wait_for_server can come to.
PollOutcomes ==
    {[kind |-> "transport"]}
    \cup {[kind |-> "response", status_code |-> s] : s \in {200, 503}}


(***************************************************************************)
(* State of src/test_api.py.                                               *)
(***************************************************************************)
VARIABLES
    pc,          \* the statement main is at
    timeout,     \* wait_for_server: its parameter
    i,           \* wait_for_server: the loop variable of `for i in range(timeout)`
    polls,       \* number of liveness requests wait_for_server has made
    lastPoll,    \* answer to the latest liveness request
    waitResult,  \* value wait_for_server returned: "True", "False", None before
    TOKEN,       \* the module global TOKEN
    sent,        \* requests api_request has handed to the transport, in order
    yields,      \* per request of `sent`: the usable token its answer yielded
    outcome,     \* what the transport did with the latest request (no body)
    response,    \* what api_request returned for it (no body)
    report,      \* messages of the print_result lines, in order
    lastPass,    \* success flag of the latest print_result line
    banner,      \* "API TESTING COMPLETE" has been printed
    exitStatus   \* exit status of the process (Running while it runs)

apiVars == <<pc, timeout, i, polls, lastPoll, waitResult, TOKEN, sent, yields,
             outcome, response, report, lastPass, banner, exitStatus>>

(***************************************************************************)
(* State of src/webui/record_demo.py                                       *)
(* and of src/verification/verify_dashboard.py.                            *)
(***************************************************************************)
VARIABLES
    script,      \* which of the two scripts runs
    dpc,         \* the statement the script is at
    browser,     \* the browser process: "none", "open", "closed"
    context,     \* the browser context: "none", "open", "closed"
    routes,      \* the page.route registrations, in the order they were made
    request,     \* the request of the page that is in flight (NoRequest if none)
    answer,      \* what the routing did with it (NoAnswer before)
    attempted,   \* record_demo: the interaction steps started, in order
    awaiting,    \* record_demo: the await of the latest step started that
                 \*   the script waits in (0 when it waits in none)
    failedStep,  \* record_demo: the step that raised (0 when none has)
    landmark,    \* verify_dashboard: the wait for "Simulator Status":
                 \*   "none" before, then "found" or "timeout"
    cardChecks,  \* verify_dashboard: number of service-card checks made
    screenshots  \* number of page.screenshot calls made

demoVars == <<script, dpc, browser, context, routes, request, answer,
              attempted, awaiting, failedStep, landmark, cardChecks,
              screenshots>>

(***************************************************************************)
(* One call of api_request taken on its own.                               *)
(***************************************************************************)
VARIABLES
    apiCall,     \* the arguments of the call (NoCall when there is none)
    apiResult    \* what the call came to (NoResult before it has run)

callVars == <<apiCall, apiResult>>

vars == <<apiVars, demoVars, callVars>>

(***************************************************************************)
(* Python values.                                                          *)
(***************************************************************************)
\* bool(x) of an Optional[str]
Truthy(x) == x # None /\ x # ""

\* dict.get("token") on a parsed JSON object
GetToken(body) ==
    IF body.token \in {"absent", "null"} THEN None ELSE body.token

\* response.json() raises when the body is not JSON
JsonRaises(body) == body.kind = "invalid"

\* `response and ...`: None is falsy, and a Response is truthy when it is
\* `ok`, that is when its status is not a client or server error (400..599)
ResponseTruthy(resp) ==
    resp.kind = "response" /\ ~(resp.status_code >= 400 /\ resp.status_code < 600)

(***************************************************************************)
(* api_request                                                             *)
(***************************************************************************)
SupportedMethods == {"GET", "POST", "PUT", "DELETE"}

\* headers = {"Content-Type": ...}; if auth and TOKEN: headers["Authorization"]
\* the header added whenever a token is held, whatever the auth flag
HeadersIgnoreAuth(auth, token) ==
    IF Truthy(token)
    THEN [ContentType |-> "application/json", Authorization |-> <<"Bearer", token>>]
    ELSE [ContentType |-> "application/json"]

Headers(auth, token) ==
    IF auth /\ Truthy(token)
    THEN [ContentType |-> "application/json", Authorization |-> <<"Bearer", token>>]
    ELSE [ContentType |-> "application/json"]

\* api_request without its except clause: a transport failure leaves it
api_requestNoExcept(method, endpoint, auth, token, net) ==
    IF method \notin SupportedMethods
    THEN [requests |-> <<>>, returned |-> NoResponse, raised |-> TRUE]
    ELSE [requests |-> <<[method |-> method, endpoint |-> endpoint,
                          headers |-> Headers(auth, token)]>>,
          returned |-> IF net.kind = "transport" THEN NoResponse ELSE net,
          raised   |-> net.kind = "transport"]

\* One call of api_request, `net` being what the transport does with the
\* request.  requests: the requests handed to the transport (one, or none);
\* returned: the return value; raised: an exception left the function.
\* Both the transport's exception and the ValueError of an unsupported
\* method are raised inside the try block and end in `return None`.
api_request(method, endpoint, auth, token, net) ==
    IF method \notin SupportedMethods
    THEN [requests |-> <<>>, returned |-> NoResponse, raised |-> FALSE]
    ELSE [requests |-> <<[method |-> method, endpoint |-> endpoint,
                          headers |-> Headers(auth, token)]>>,
          returned |-> IF net.kind = "transport" THEN NoResponse ELSE net,
          raised   |-> FALSE]

(***************************************************************************)
(* The operations of the run, in the order main's stages issue them.       *)
(*   accepted: the status codes of the success branch                      *)
(*   handler:  what the success branch does with the body                   *)
(***************************************************************************)
Op(name, method, endpoint, auth, accepted, handler) ==
    [name |-> name, method |-> method, endpoint |-> endpoint, auth |-> auth,
     accepted |-> accepted, handler |-> handler]

\* the stages with test_cleanup called before test_config
OpSeqCleanupEarly == <<
    Op("health",   "GET",    "/health",                           FALSE, {200},      "print"),
    Op("register", "POST",   "/api/auth/register",                FALSE, {200, 201}, "set_token"),
    Op("login",    "POST",   "/api/auth/login",                   FALSE, {200},      "set_token"),
    Op("me",       "GET",    "/api/auth/me",                      TRUE,  {200},      "print"),
    Op("refresh",  "POST",   "/api/auth/refresh",                 TRUE,  {200},      "refresh_token"),
    Op("list",     "GET",    "/api/services",                     TRUE,  {200},      "print"),
    Op("create",   "POST",   "/api/services",                     TRUE,  {200, 201}, "print"),
    Op("get",      "GET",    "/api/services/test-service",        TRUE,  {200},      "print"),
    Op("start",    "POST",   "/api/services/test-service/start",  TRUE,  {200},      "print"),
    Op("status",   "GET",    "/api/services/test-service/status", TRUE,  {200},      "print"),
    Op("stop",     "POST",   "/api/services/test-service/stop",   TRUE,  {200},      "print"),
    Op("logs",     "GET",    "/api/logs",                         TRUE,  {200},      "print"),
    Op("recording","GET",    "/api/recording/status",             TRUE,  {200},      "print"),
    Op("ai",       "GET",    "/api/ai/config",                    TRUE,  {200},      "print"),
    Op("codegen",  "POST",   "/api/codegen/typescript",           TRUE,  {200},      "codegen"),
    Op("delete",   "DELETE", "/api/services/test-service",        TRUE,  {200},      "print"),
    Op("logout",   "POST",   "/api/auth/logout",                  TRUE,  {200},      "print"),
    Op("config",   "GET",    "/api/config",                       TRUE,  {200},      "print")
>>

OpSeq == <<
    Op("health",   "GET",    "/health",                           FALSE, {200},      "print"),
    Op("register", "POST",   "/api/auth/register",                FALSE, {200, 201}, "set_token"),
    Op("login",    "POST",   "/api/auth/login",                   FALSE, {200},      "set_token"),
    Op("me",       "GET",    "/api/auth/me",                      TRUE,  {200},      "print"),
    Op("refresh",  "POST",   "/api/auth/refresh",                 TRUE,  {200},      "refresh_token"),
    Op("list",     "GET",    "/api/services",                     TRUE,  {200},      "print"),
    Op("create",   "POST",   "/api/services",                     TRUE,  {200, 201}, "print"),
    Op("get",      "GET",    "/api/services/test-service",        TRUE,  {200},      "print"),
    Op("start",    "POST",   "/api/services/test-service/start",  TRUE,  {200},      "print"),
    Op("status",   "GET",    "/api/services/test-service/status", TRUE,  {200},      "print"),
    Op("stop",     "POST",   "/api/services/test-service/stop",   TRUE,  {200},      "print"),
    Op("logs",     "GET",    "/api/logs",                         TRUE,  {200},      "print"),
    Op("recording","GET",    "/api/recording/status",             TRUE,  {200},      "print"),
    Op("ai",       "GET",    "/api/ai/config",                    TRUE,  {200},      "print"),
    Op("codegen",  "POST",   "/api/codegen/typescript",           TRUE,  {200},      "codegen"),
    Op("config",   "GET",    "/api/config",                       TRUE,  {200},      "print"),
    Op("delete",   "DELETE", "/api/services/test-service",        TRUE,  {200},      "print"),
    Op("logout",   "POST",   "/api/auth/logout",                  TRUE,  {200},      "print")
>>

NumOps == Len(OpSeq)

OpNames == {OpSeq[k].name : k \in 1..NumOps}

\* the statement after operation k
PcAfter(k) == IF k < NumOps THEN OpSeq[k + 1].name ELSE "banner"

\* `response and response.status_code in [...]`
Accepted(resp, accepted) == ResponseTruthy(resp) /\ resp.status_code \in accepted

(***************************************************************************)
(* The success branches.  Each gives whether the branch raises and the     *)
(* value of TOKEN after it.                                                *)
(***************************************************************************)
\* a success branch that also forgets the token
HandlePrintClearsToken(body, token) ==
    [raised |-> JsonRaises(body), token |-> None]

\* print(json.dumps(response.json(), indent=2))
HandlePrint(body, token) ==
    [raised |-> JsonRaises(body), token |-> token]

\* data = response.json(); TOKEN = data.get("token")     (register, login)
HandleSetToken(body, token) ==
    IF body.kind # "object"
    THEN [raised |-> TRUE, token |-> token]
    ELSE [raised |-> FALSE, token |-> GetToken(body)]

\* new_token = data.get("token"); if new_token: TOKEN = new_token  (refresh)
HandleRefreshToken(body, token) ==
    IF body.kind # "object"
    THEN [raised |-> TRUE, token |-> token]
    ELSE [raised |-> FALSE,
          token  |-> IF Truthy(GetToken(body)) THEN GetToken(body) ELSE token]

\* data = response.json()
\* if "data" in data and "code" in data["data"]:
\*     print(f"Generated {len(data['data']['code'])} characters ...")  (codegen)
\* response.json() raises on text that is not JSON.  `in` raises on a number;
\* on an array or a string it is a membership test, and when that finds its
\* item the indexing by "data" or by "code" that follows raises; len raises
\* on a code value that has no length.
HandleCodegen(body, token) ==
    [raised |-> \/ body.kind \in {"invalid", "number"}
                \/ body.kind = "list" /\ body.items = "data"
                \/ /\ body.kind = "object"
                   /\ body.data \in {"number", "codenolen", "codeitem"},
     token  |-> token]

Handle(handler, body, token) ==
    CASE handler = "print"         -> HandlePrint(body, token)
      [] handler = "set_token"     -> HandleSetToken(body, token)
      [] handler = "refresh_token" -> HandleRefreshToken(body, token)
      [] handler = "codegen"       -> HandleCodegen(body, token)

\* the usable token an answer to operation `op` yields, None when none:
\* the operation is one of register, login, refresh, its status is accepted
\* and its body is a JSON object whose token member is a non-empty string
Yielded(op, net) ==
    IF /\ op.handler \in {"set_token", "refresh_token"}
       /\ net.kind = "response"
       /\ net.status_code \in op.accepted
       /\ net.body.kind = "object"
       /\ Truthy(GetToken(net.body))
    THEN net.body.token
    ELSE None


\* An exchange or a return value without its body: the part the state keeps.
StatusOf(x) ==
    IF x.kind = "response"
    THEN [kind |-> "response", status_code |-> x.status_code]
    ELSE x

(***************************************************************************)
(* wait_for_server                                                         *)
(***************************************************************************)
\* wait_for_server taking any answer, whatever its status, for readiness
PollAnyStatus ==
    /\ pc = "wait"
    /\ i < timeout
    /\ \E a \in PollOutcomes :
        /\ polls' = polls + 1
        /\ lastPoll' = a
        /\ IF a.kind = "response"
           THEN /\ waitResult' = "True"
                /\ pc' = "main"
                /\ i' = i
           ELSE /\ i' = i + 1
                /\ UNCHANGED <<waitResult, pc>>
    /\ UNCHANGED <<timeout, TOKEN, sent, yields, outcome, response, report,
                   lastPass, banner, exitStatus>>
    /\ UNCHANGED <<demoVars, callVars>>

\* One iteration of `for i in range(timeout)`: one liveness request.  A 200
\* returns True; any other status and any exception fall through to the
\* sleep and the next iteration.
Poll ==
    /\ pc = "wait"
    /\ i < timeout
    /\ \E a \in PollOutcomes :
        /\ polls' = polls + 1
        /\ lastPoll' = a
        /\ IF a.kind = "response" /\ a.status_code = 200
           THEN /\ waitResult' = "True"
                /\ pc' = "main"
                /\ i' = i
           ELSE /\ i' = i + 1
                /\ UNCHANGED <<waitResult, pc>>
    /\ UNCHANGED <<timeout, TOKEN, sent, yields, outcome, response, report,
                   lastPass, banner, exitStatus>>
    /\ UNCHANGED <<demoVars, callVars>>

\* The loop is exhausted: print the failure line and return False.
WaitTimeout ==
    /\ pc = "wait"
    /\ i >= timeout
    /\ waitResult' = "False"
    /\ pc' = "main"
    /\ UNCHANGED <<timeout, i, polls, lastPoll, TOKEN, sent, yields, outcome,
                   response, report, lastPass, banner, exitStatus>>
    /\ UNCHANGED <<demoVars, callVars>>

(***************************************************************************)
(* main                                                                    *)
(***************************************************************************)
\* if not wait_for_server(): ...; sys.exit(1)
\* main without the sys.exit(1)
MainCheckNoExit ==
    /\ pc = "main"
    /\ pc' = OpSeq[1].name
    /\ UNCHANGED <<timeout, i, polls, lastPoll, waitResult, TOKEN, sent, yields,
                   outcome, response, report, lastPass, banner, exitStatus>>
    /\ UNCHANGED <<demoVars, callVars>>

MainCheck ==
    /\ pc = "main"
    /\ IF waitResult = "False"
       THEN pc' = "exit" /\ exitStatus' = 1
       ELSE pc' = OpSeq[1].name /\ UNCHANGED exitStatus
    /\ UNCHANGED <<timeout, i, polls, lastPoll, waitResult, TOKEN, sent, yields,
                   outcome, response, report, lastPass, banner>>
    /\ UNCHANGED <<demoVars, callVars>>

\* Operation k of the run: the api_request call and the if/else after it.
\* An exception in the success branch is caught nowhere: it ends the process
\* with a traceback, before the print_result of the branch.
ApiOp(k) ==
    LET op == OpSeq[k] IN
    /\ pc = op.name
    /\ \E net \in Outcomes :
        LET call == api_request(op.method, op.endpoint, op.auth, TOKEN, net)
            resp == call.returned
        IN
        /\ sent' = sent \o call.requests
        /\ yields' = Append(yields, Yielded(op, net))
        /\ outcome' = StatusOf(net)
        /\ response' = StatusOf(resp)
        /\ IF call.raised
           THEN /\ pc' = "crashed"
                /\ exitStatus' = 1
                /\ UNCHANGED <<TOKEN, report, lastPass>>
           ELSE IF Accepted(resp, op.accepted)
           THEN LET h == Handle(op.handler, resp.body, TOKEN) IN
                IF h.raised
                THEN /\ pc' = "crashed"
                     /\ exitStatus' = 1
                     /\ UNCHANGED <<TOKEN, report, lastPass>>
                ELSE /\ TOKEN' = h.token
                     /\ report' = Append(report, <<op.method, op.endpoint>>)
                     /\ lastPass' = TRUE
                     /\ pc' = PcAfter(k)
                     /\ UNCHANGED exitStatus
           ELSE /\ report' = Append(report, <<op.method, op.endpoint>>)
                /\ lastPass' = FALSE
                /\ pc' = PcAfter(k)
                /\ UNCHANGED <<TOKEN, exitStatus>>
    /\ UNCHANGED <<timeout, i, polls, lastPoll, waitResult, banner>>
    /\ UNCHANGED <<demoVars, callVars>>

\* test_health
Health == ApiOp(1)
\* test_authentication
Register == ApiOp(2)
Login == ApiOp(3)
Me == ApiOp(4)
Refresh == ApiOp(5)
\* test_service_management
ListServices == ApiOp(6)
CreateService == ApiOp(7)
GetService == ApiOp(8)
StartService == ApiOp(9)
ServiceStatus == ApiOp(10)
StopService == ApiOp(11)
\* test_logs, test_recording, test_ai, test_codegen, test_config
Logs == ApiOp(12)
Recording == ApiOp(13)
AiConfig == ApiOp(14)
Codegen == ApiOp(15)
Config == ApiOp(16)
\* test_cleanup
DeleteService == ApiOp(17)
Logout == ApiOp(18)

\* the completion banner, and the end of main
Banner ==
    /\ pc = "banner"
    /\ banner' = TRUE
    /\ pc' = "done"
    /\ exitStatus' = 0
    /\ UNCHANGED <<timeout, i, polls, lastPoll, waitResult, TOKEN, sent, yields,
                   outcome, response, report, lastPass>>
    /\ UNCHANGED <<demoVars, callVars>>

(***************************************************************************)
(* src/webui/record_demo.py: the mocked routes.                            *)
(*                                                                         *)
(* A URL is the sequence of its pieces: the origin, then "/" and a segment *)
(* for each path segment, then possibly a query.  A glob pattern is the    *)
(* same with "**" standing for any run of pieces and "*" for any run of    *)
(* pieces other than "/".                                                  *)
(***************************************************************************)
Origin == "http://localhost:9002"

Segments == {"api", "services", "reload", "status", "logs", "iot", "twins",
             "marketplace", "ai", "config", "test-service"}

Queries == {"?limit=10"}

RECURSIVE PathsOf(_)
\* the paths of exactly n segments
PathsOf(n) ==
    IF n = 0 THEN {<<>>}
    ELSE {p \o <<"/", g>> : p \in PathsOf(n - 1), g \in Segments}

\* the paths the page.route patterns of run() spell out
MockedPaths == {
    <<"/", "status">>,
    <<"/", "api", "/", "services", "/", "reload">>,
    <<"/", "api", "/", "services">>,
    <<"/", "api", "/", "logs">>,
    <<"/", "api", "/", "iot", "/", "twins">>,
    <<"/", "api", "/", "marketplace">>,
    <<"/", "api", "/", "ai", "/", "config">>
}

Paths == UNION {PathsOf(n) : n \in 0..MaxSegs} \cup MockedPaths

\* the URLs the page can request
Urls ==
    {<<Origin>> \o p : p \in Paths}
    \cup {<<Origin>> \o p \o <<q>> : p \in Paths \ {<<>>}, q \in Queries}

DemoMethods == {"GET", "POST", "PUT", "DELETE", "PATCH"}

NoRequest == [kind |-> "None"]
NoAnswer == [kind |-> "None"]

RECURSIVE GlobMatch(_, _)
\* the glob `pat` matches the whole of `url`
GlobMatch(pat, url) ==
    IF pat = <<>> THEN url = <<>>
    ELSE IF Head(pat) = "**"
    THEN \E k \in 0..Len(url) : GlobMatch(Tail(pat), SubSeq(url, k + 1, Len(url)))
    ELSE IF Head(pat) = "*"
    THEN \E k \in 0..Len(url) :
            /\ \A j \in 1..k : url[j] # "/"
            /\ GlobMatch(Tail(pat), SubSeq(url, k + 1, Len(url)))
    ELSE /\ url # <<>>
         /\ Head(url) = Head(pat)
         /\ GlobMatch(Tail(pat), Tail(url))

\* the page.route calls of run(), in the order they are made
RouteTable == <<
    [pattern |-> <<"**", "/", "status">>,                            handler |-> "handle_status"],
    [pattern |-> <<"**", "/", "api", "/", "services", "/", "reload">>, handler |-> "reload"],
    [pattern |-> <<"**", "/", "api", "/", "services">>,              handler |-> "handle_services"],
    [pattern |-> <<"**", "/", "api", "/", "logs", "**">>,            handler |-> "handle_logs"],
    [pattern |-> <<"**", "/", "api", "/", "iot", "/", "twins">>,     handler |-> "handle_twins"],
    [pattern |-> <<"**", "/", "api", "/", "marketplace">>,           handler |-> "handle_marketplace"],
    [pattern |-> <<"**", "/", "api", "/", "ai", "/", "config">>,     handler |-> "ai_config"],
    [pattern |-> <<"**", "/", "api", "/", "**">>,                    handler |-> "handle_generic"]
>>

NumRoutes == Len(RouteTable)

Fulfill(body) == [kind |-> "fulfill", status |-> 200, body |-> body]
\* route.continue_(): the request goes on to the real network
Continue == [kind |-> "continue"]

\* the handlers with a catch-all that fulfils every method
RespondGenericAll(handler, method) ==
    CASE handler = "handle_status"      -> Fulfill("simulator status")
      [] handler = "reload"             -> Fulfill("success")
      [] handler = "handle_services"    ->
            IF method = "GET" THEN Fulfill("services list") ELSE Continue
      [] handler = "handle_logs"        -> Fulfill("logs")
      [] handler = "handle_twins"       -> Fulfill("twins")
      [] handler = "handle_marketplace" -> Fulfill("marketplace")
      [] handler = "ai_config"          -> Fulfill("ai config")
      [] handler = "handle_generic"     -> Fulfill("generic success")
      [] handler = "verify_status"      -> Fulfill("verify status")
      [] handler = "verify_metrics"     -> Fulfill("verify metrics")
      [] handler = "verify_logs"        -> Fulfill("verify logs")

\* what the handler does with a request of the given method
Respond(handler, method) ==
    CASE handler = "handle_status"      -> Fulfill("simulator status")
      [] handler = "reload"             -> Fulfill("success")
      [] handler = "handle_services"    ->
            IF method = "GET" THEN Fulfill("services list") ELSE Continue
      [] handler = "handle_logs"        -> Fulfill("logs")
      [] handler = "handle_twins"       -> Fulfill("twins")
      [] handler = "handle_marketplace" -> Fulfill("marketplace")
      [] handler = "ai_config"          -> Fulfill("ai config")
      [] handler = "handle_generic"     ->
            IF method \in {"POST", "PUT", "DELETE"}
            THEN Fulfill("generic success") ELSE Continue
      [] handler = "verify_status"      -> Fulfill("verify status")
      [] handler = "verify_metrics"     -> Fulfill("verify metrics")
      [] handler = "verify_logs"        -> Fulfill("verify logs")

\* the registrations whose pattern matches the URL
Matching(rs, url) == {k \in 1..Len(rs) : GlobMatch(rs[k].pattern, url)}

\* the registration the page hands a request to, 0 when none matches, as if
\* the one registered first were asked first
RouteForFirstRegistered(rs, url) ==
    IF Matching(rs, url) = {} THEN 0
    ELSE CHOOSE k \in Matching(rs, url) : \A m \in Matching(rs, url) : k <= m

\* The registration the page hands a request to, 0 when none matches.
\* page.route puts each new registration in front of the earlier ones: of
\* the registrations that match, the one made last is asked, and it alone.
RouteFor(rs, url) ==
    IF Matching(rs, url) = {} THEN 0
    ELSE CHOOSE k \in Matching(rs, url) : \A m \in Matching(rs, url) : m <= k

\* what becomes of a request: the handler that took it and what it did;
\* a request no registration matches goes to the real network
Dispatch(rs, req) ==
    LET k == RouteFor(rs, req.url) IN
    IF k = 0
    THEN [kind |-> "network", route |-> 0, handler |-> "none"]
    ELSE LET r == Respond(rs[k].handler, req.method) IN
         IF r.kind = "continue"
         THEN [kind |-> "network", route |-> k, handler |-> rs[k].handler]
         ELSE [kind |-> "fulfill", route |-> k, handler |-> rs[k].handler,
               status |-> r.status, body |-> r.body]

(***************************************************************************)
(* src/verification/verify_dashboard.py: its three routes.                 *)
(***************************************************************************)
VerifyRouteTable == <<
    [pattern |-> <<"**", "/", "status">>,                             handler |-> "verify_status"],
    [pattern |-> <<"**", "/", "api", "/", "system", "/", "metrics">>, handler |-> "verify_metrics"],
    [pattern |-> <<"**", "/", "api", "/", "logs", "*">>,              handler |-> "verify_logs"]
>>

VerifySegments == {"api", "status", "system", "metrics", "logs", "services"}

RECURSIVE VerifyPathsOf(_)
VerifyPathsOf(n) ==
    IF n = 0 THEN {<<>>}
    ELSE {p \o <<"/", g>> : p \in VerifyPathsOf(n - 1), g \in VerifySegments}

\* the paths the page.route patterns of verify_dashboard spell out
VerifyMockedPaths == {
    <<"/", "status">>,
    <<"/", "api", "/", "system", "/", "metrics">>,
    <<"/", "api", "/", "logs">>
}

VerifyPaths == UNION {VerifyPathsOf(n) : n \in 0..MaxSegs} \cup VerifyMockedPaths

\* the URLs the page of verify_dashboard can request
VerifyUrls ==
    {<<Origin>> \o p : p \in VerifyPaths}
    \cup {<<Origin>> \o p \o <<q>> : p \in VerifyPaths \ {<<>>}, q \in Queries}

Scripts == {"record_demo", "verify_dashboard"}

\* the page.route calls of the script, in the order they are made
RoutesOf(sc) == IF sc = "record_demo" THEN RouteTable ELSE VerifyRouteTable

UrlsOf(sc) == IF sc = "record_demo" THEN Urls ELSE VerifyUrls

(***************************************************************************)
(* The interaction sequence of record_demo: each step is one selector      *)
(* action followed by its settle delay.                                    *)
(***************************************************************************)
Steps == <<
    "wait_for_selector text=Simulator Status",
    "hover service-card users-service",
    "click sidebar-services",
    "click sidebar-iot",
    "click sidebar-marketplace",
    "click sidebar-recording",
    "click sidebar-ai-generator",
    "click sidebar-plugin-generator",
    "click sidebar-contract-testing",
    "click sidebar-code-generator",
    "click sidebar-logs",
    "click sidebar-configuration",
    "click sidebar-dashboard"
>>

NumSteps == Len(Steps)

\* the awaits of each step: the selector action, then its settle delays
\* (the click on sidebar-services is followed by two)
Awaits == <<2, 2, 3, 2, 2, 2, 2, 2, 2, 2, 2, 2, 2>>

\* record_demo: p.chromium.launch, browser.new_context, context.new_page
\* verify_dashboard: p.chromium.launch, browser.new_page, which makes the
\* page's context
Launch ==
    /\ dpc = "launch"
    /\ browser' = "open"
    /\ context' = "open"
    /\ dpc' = "route"
    /\ UNCHANGED <<script, routes, request, answer, attempted, failedStep,
                   landmark, cardChecks, screenshots>>
    /\ UNCHANGED <<apiVars, callVars>>
    /\ UNCHANGED awaiting

\* the next page.route call
RegisterRoute ==
    /\ dpc = "route"
    /\ Len(routes) < Len(RoutesOf(script))
    /\ routes' = Append(routes, RoutesOf(script)[Len(routes) + 1])
    /\ UNCHANGED <<script, dpc, browser, context, request, answer, attempted,
                   failedStep, landmark, cardChecks, screenshots>>
    /\ UNCHANGED <<apiVars, callVars>>
    /\ UNCHANGED awaiting

\* page.goto: the navigation starts, the page begins to issue requests
StartNavigation ==
    /\ dpc = "route"
    /\ Len(routes) = Len(RoutesOf(script))
    /\ dpc' = "goto"
    /\ UNCHANGED <<script, browser, context, routes, request, answer,
                   attempted, failedStep, landmark, cardChecks, screenshots>>
    /\ UNCHANGED <<apiVars, callVars>>
    /\ UNCHANGED awaiting

\* The statements during which the page is alive: from page.goto to the
\* close.  The page fetches while the script waits in any of them.
PageLive == {"goto", "interact", "screenshot", "close",
             "wait_landmark", "check_cards"}

\* The script waits in an await or in a call of the page: only then do the
\* route handlers run.  After the navigation record_demo goes on to the
\* first await of the interaction without giving up control.
AtAwait == ~(dpc = "interact" /\ awaiting = 0)

\* The page issues a request.  It does so during the navigation and at any
\* later await or call of the script, until the page is closed; the model
\* follows one request at a time.
PageRequest ==
    /\ dpc \in PageLive
    /\ request = NoRequest
    /\ \E u \in UrlsOf(script), m \in DemoMethods :
          request' = [kind |-> "request", url |-> u, method |-> m]
    /\ answer' = NoAnswer
    /\ UNCHANGED <<script, dpc, browser, context, routes, attempted,
                   failedStep, landmark, cardChecks, screenshots>>
    /\ UNCHANGED <<apiVars, callVars>>
    /\ UNCHANGED awaiting

\* the routing of the request in flight: the handler fulfils it or lets it
\* go to the network
RouteRequest ==
    /\ dpc \in PageLive
    /\ AtAwait
    /\ request # NoRequest
    /\ answer = NoAnswer
    /\ answer' = Dispatch(routes, request)
    /\ UNCHANGED <<script, dpc, browser, context, routes, request, attempted,
                   failedStep, landmark, cardChecks, screenshots>>
    /\ UNCHANGED <<apiVars, callVars>>
    /\ UNCHANGED awaiting

\* the page receives the answer; the request is over
RequestDone ==
    /\ dpc \in PageLive
    /\ request # NoRequest
    /\ answer # NoAnswer
    /\ request' = NoRequest
    /\ UNCHANGED <<script, dpc, browser, context, routes, answer, attempted,
                   failedStep, landmark, cardChecks, screenshots>>
    /\ UNCHANGED <<apiVars, callVars>>
    /\ UNCHANGED awaiting

\* page.goto and, in record_demo, wait_for_load_state("networkidle") come
\* back.  The latter waits until no request is in flight; page.goto alone
\* returns at the load event, whatever is in flight.
NavigationOk ==
    /\ dpc = "goto"
    /\ script = "record_demo" => request = NoRequest
    /\ dpc' = IF script = "record_demo" THEN "interact" ELSE "wait_landmark"
    /\ UNCHANGED <<script, browser, context, routes, request, answer,
                   attempted, failedStep, landmark, cardChecks, screenshots>>
    /\ UNCHANGED <<apiVars, callVars>>
    /\ UNCHANGED awaiting

\* the navigation failure of scripts that start playwright without the
\* with block: nothing closes what the failure path itself does not close
NavigationFailsNoWith ==
    /\ dpc = "goto"
    /\ IF script = "record_demo"
       THEN context' = "closed" /\ dpc' = "returned"
       ELSE dpc' = "raised" /\ UNCHANGED context
    /\ UNCHANGED <<script, browser, routes, request, answer, attempted,
                   failedStep, landmark, cardChecks, screenshots>>
    /\ UNCHANGED <<apiVars, callVars>>
    /\ UNCHANGED awaiting

\* The navigation raises.  record_demo catches it, closes the context and
\* returns; verify_dashboard has no try around page.goto and the exception
\* leaves the function.  Both the return and the exception pass through
\* the exit of the script's `async with async_playwright()` /
\* `with sync_playwright()` block, which stops playwright: the browser it
\* launched and the contexts of that browser are closed before the
\* function is left.
NavigationFails ==
    /\ dpc = "goto"
    /\ context' = "closed"
    /\ browser' = "closed"
    /\ dpc' = IF script = "record_demo" THEN "returned" ELSE "raised"
    /\ UNCHANGED <<script, routes, request, answer, attempted,
                   failedStep, landmark, cardChecks, screenshots>>
    /\ UNCHANGED <<apiVars, callVars>>
    /\ UNCHANGED awaiting

\* the interaction with a try around each step: a step that raises is
\* noted and the next one is started
InteractPerStepCatch ==
    /\ script = "record_demo"
    /\ dpc = "interact"
    /\ LET k == Len(attempted) IN
       IF awaiting = 0
       THEN /\ attempted' = <<Steps[1]>>
            /\ awaiting' = 1
            /\ UNCHANGED <<dpc, failedStep>>
       ELSE \E ok \in BOOLEAN :
            IF ok /\ awaiting < Awaits[k]
            THEN /\ awaiting' = awaiting + 1
                 /\ UNCHANGED <<attempted, dpc, failedStep>>
            ELSE /\ failedStep' = IF ok \/ failedStep # 0 THEN failedStep ELSE k
                 /\ IF k < NumSteps
                    THEN /\ attempted' = Append(attempted, Steps[k + 1])
                         /\ awaiting' = 1
                         /\ UNCHANGED dpc
                    ELSE /\ dpc' = IF failedStep' # 0 THEN "screenshot" ELSE "close"
                         /\ awaiting' = 0
                         /\ UNCHANGED attempted
    /\ UNCHANGED <<script, browser, context, routes, request, answer,
                   landmark, cardChecks, screenshots>>
    /\ UNCHANGED <<apiVars, callVars>>

\* record_demo: the script goes from one await of the interaction sequence
\* to the next.  Between two awaits it does not give up control: the return
\* of one and the call of the next are one step, and the call of a step's
\* first await starts the step.  Any await can raise; the one except clause
\* around the whole sequence then takes over and calls page.screenshot.
Interact ==
    /\ script = "record_demo"
    /\ dpc = "interact"
    /\ LET k == Len(attempted) IN
       IF awaiting = 0
       THEN /\ attempted' = <<Steps[1]>>
            /\ awaiting' = 1
            /\ UNCHANGED <<dpc, failedStep>>
       ELSE \E ok \in BOOLEAN :
            IF ~ok
            THEN /\ failedStep' = k
                 /\ dpc' = "screenshot"
                 /\ awaiting' = 0
                 /\ UNCHANGED attempted
            ELSE IF awaiting < Awaits[k]
            THEN /\ awaiting' = awaiting + 1
                 /\ UNCHANGED <<attempted, dpc, failedStep>>
            ELSE IF k < NumSteps
            THEN /\ attempted' = Append(attempted, Steps[k + 1])
                 /\ awaiting' = 1
                 /\ UNCHANGED <<dpc, failedStep>>
            ELSE /\ dpc' = "close"
                 /\ awaiting' = 0
                 /\ UNCHANGED <<attempted, failedStep>>
    /\ UNCHANGED <<script, browser, context, routes, request, answer,
                   landmark, cardChecks, screenshots>>
    /\ UNCHANGED <<apiVars, callVars>>

\* record_demo: the except clause: page.screenshot(path="webui/error.png")
ErrorScreenshot ==
    /\ script = "record_demo"
    /\ dpc = "screenshot"
    /\ screenshots' = screenshots + 1
    /\ dpc' = "close"
    /\ UNCHANGED <<script, browser, context, routes, request, answer,
                   attempted, failedStep, landmark, cardChecks>>
    /\ UNCHANGED <<apiVars, callVars>>
    /\ UNCHANGED awaiting

\* record_demo: context.close(), browser.close(), the renaming of the
\* video, and the end of run()
CloseAndReturn ==
    /\ script = "record_demo"
    /\ dpc = "close"
    /\ context' = "closed"
    /\ browser' = "closed"
    /\ dpc' = "returned"
    /\ UNCHANGED <<script, routes, request, answer, attempted, failedStep,
                   landmark, cardChecks, screenshots>>
    /\ UNCHANGED <<apiVars, callVars>>
    /\ UNCHANGED awaiting

\* the wait for the landmark without its except clause
WaitLandmarkNoExcept ==
    /\ script = "verify_dashboard"
    /\ dpc = "wait_landmark"
    /\ \E found \in BOOLEAN :
          /\ landmark' = IF found THEN "found" ELSE "timeout"
          /\ dpc' = IF found THEN "check_cards" ELSE "raised"
          /\ browser' = IF found THEN browser ELSE "closed"
          /\ context' = IF found THEN context ELSE "closed"
    /\ UNCHANGED <<script, routes, request, answer,
                   attempted, failedStep, cardChecks, screenshots>>
    /\ UNCHANGED <<apiVars, callVars>>
    /\ UNCHANGED awaiting

\* verify_dashboard: page.wait_for_selector("text=Simulator Status") in
\* its try; the bare except swallows the timeout
WaitLandmark ==
    /\ script = "verify_dashboard"
    /\ dpc = "wait_landmark"
    /\ \E found \in BOOLEAN :
          landmark' = IF found THEN "found" ELSE "timeout"
    /\ dpc' = "check_cards"
    /\ UNCHANGED <<script, browser, context, routes, request, answer,
                   attempted, failedStep, cardChecks, screenshots>>
    /\ UNCHANGED <<apiVars, callVars>>
    /\ UNCHANGED awaiting

\* verify_dashboard: page.locator("text=User Service").is_visible()
CheckCards ==
    /\ script = "verify_dashboard"
    /\ dpc = "check_cards"
    /\ cardChecks' = cardChecks + 1
    /\ dpc' = "screenshot"
    /\ UNCHANGED <<script, browser, context, routes, request, answer,
                   attempted, failedStep, landmark, screenshots>>
    /\ UNCHANGED <<apiVars, callVars>>
    /\ UNCHANGED awaiting

\* verify_dashboard: page.screenshot(path=output_path, full_page=True)
VerifyScreenshot ==
    /\ script = "verify_dashboard"
    /\ dpc = "screenshot"
    /\ screenshots' = screenshots + 1
    /\ dpc' = "close"
    /\ UNCHANGED <<script, browser, context, routes, request, answer,
                   attempted, failedStep, landmark, cardChecks>>
    /\ UNCHANGED <<apiVars, callVars>>
    /\ UNCHANGED awaiting

\* verify_dashboard: browser.close(), which closes the page's context too,
\* and the end of the function
VerifyClose ==
    /\ script = "verify_dashboard"
    /\ dpc = "close"
    /\ browser' = "closed"
    /\ context' = "closed"
    /\ dpc' = "returned"
    /\ UNCHANGED <<script, routes, request, answer, attempted, failedStep,
                   landmark, cardChecks, screenshots>>
    /\ UNCHANGED <<apiVars, callVars>>
    /\ UNCHANGED awaiting

\* the browser scripts before they start
DemoStart ==
    /\ dpc = "launch"
    /\ browser = "none"
    /\ context = "none"
    /\ routes = <<>>
    /\ request = NoRequest
    /\ answer = NoAnswer
    /\ attempted = <<>>
    /\ awaiting = 0
    /\ failedStep = 0
    /\ landmark = "none"
    /\ cardChecks = 0
    /\ screenshots = 0

(***************************************************************************)
(* api_request called on its own, with any method and any session token.   *)
(***************************************************************************)
NoCall == [kind |-> "None"]
NoResult == [kind |-> "None"]

CallMethods == SupportedMethods \cup {"PATCH", "HEAD"}

CallEndpoints == {"/health", "/api/auth/login", "/api/auth/me", "/api/services"}

\* the values the global TOKEN can hold
SessionTokens == {None, ""} \cup Tokens

\* api_request(method, endpoint, data, auth) runs to its return or raise
ApiRequestCall ==
    /\ apiCall # NoCall
    /\ apiResult = NoResult
    /\ \E net \in Outcomes :
        LET c == api_request(apiCall.method, apiCall.endpoint, apiCall.auth, TOKEN, net) IN
        apiResult' = [kind     |-> "result",
                   net      |-> IF c.requests = <<>> THEN NoResponse ELSE StatusOf(net),
                   requests |-> c.requests,
                   returned |-> StatusOf(c.returned),
                   raised   |-> c.raised]
    /\ UNCHANGED <<apiCall, apiVars, demoVars>>

CallStart == apiCall = NoCall /\ apiResult = NoResult

\* wait_for_server is explored for each timeout; main calls it with the
\* default one.
Timeouts == (0..MaxTimeout) \cup {DefaultTimeout}

Init ==
    /\ pc = "wait"
    /\ timeout \in Timeouts
    /\ i = 0
    /\ polls = 0
    /\ lastPoll = NoResponse
    /\ waitResult = None
    /\ TOKEN = None
    /\ sent = <<>>
    /\ yields = <<>>
    /\ outcome = NoResponse
    /\ response = NoResponse
    /\ report = <<>>
    /\ lastPass = FALSE
    /\ banner = FALSE
    /\ exitStatus = Running
    /\ script = "record_demo"
    /\ DemoStart
    /\ CallStart

Next ==
    \/ Poll \/ WaitTimeout \/ MainCheck
    \/ Health
    \/ Register \/ Login \/ Me \/ Refresh
    \/ ListServices \/ CreateService \/ GetService \/ StartService
    \/ ServiceStatus \/ StopService
    \/ Logs \/ Recording \/ AiConfig \/ Codegen \/ Config
    \/ DeleteService \/ Logout
    \/ Banner

Spec == Init /\ [][Next]_vars


\* The script is sequential: a statement that can run does run.
FairSpec == Spec /\ WF_vars(Next)

\* record_demo.py or verify_dashboard.py, with test_api.py not started
InitDemo ==
    /\ pc = "wait"
    /\ timeout = DefaultTimeout
    /\ i = 0
    /\ polls = 0
    /\ lastPoll = NoResponse
    /\ waitResult = None
    /\ TOKEN = None
    /\ sent = <<>>
    /\ yields = <<>>
    /\ outcome = NoResponse
    /\ response = NoResponse
    /\ report = <<>>
    /\ lastPass = FALSE
    /\ banner = FALSE
    /\ exitStatus = Running
    /\ script \in Scripts
    /\ DemoStart
    /\ CallStart

\* a caller about to make one api_request call
InitCall ==
    /\ pc = "call"
    /\ timeout = DefaultTimeout
    /\ i = 0
    /\ polls = 0
    /\ lastPoll = NoResponse
    /\ waitResult = None
    /\ TOKEN \in SessionTokens
    /\ sent = <<>>
    /\ yields = <<>>
    /\ outcome = NoResponse
    /\ response = NoResponse
    /\ report = <<>>
    /\ lastPass = FALSE
    /\ banner = FALSE
    /\ exitStatus = Running
    /\ script = "record_demo"
    /\ DemoStart
    /\ apiCall \in [kind : {"call"}, method : CallMethods,
                 endpoint : CallEndpoints, auth : BOOLEAN]
    /\ apiResult = NoResult

NextCall == ApiRequestCall

SpecCall == InitCall /\ [][NextCall]_vars

NextDemo ==
    \/ Launch \/ RegisterRoute \/ StartNavigation
    \/ PageRequest \/ RouteRequest \/ RequestDone
    \/ NavigationOk \/ NavigationFails
    \/ Interact \/ ErrorScreenshot \/ CloseAndReturn
    \/ WaitLandmark \/ CheckCards \/ VerifyScreenshot \/ VerifyClose

SpecDemo == InitDemo /\ [][NextDemo]_vars

(***************************************************************************)
(* Properties of src/test_api.py.                                          *)
(***************************************************************************)
Max(S) == CHOOSE x \in S : \A y \in S : y <= x

\* request n is the request of the operation called `name`
IsOp(n, name) ==
    \E k \in 1..NumOps :
        /\ OpSeq[k].name = name
        /\ sent[n].method = OpSeq[k].method
        /\ sent[n].endpoint = OpSeq[k].endpoint

\* the operation called `name` has been issued before request n
IssuedBefore(name, n) == \E m \in 1..(n - 1) : IsOp(m, name)

\* the process has ended
Ended == exitStatus # Running

\* the latest operation was reported as failed
LatestFailed == report # <<>> /\ Len(report) = Len(sent) /\ ~lastPass

\* C1: once an answer to register, login or refresh has yielded a token T,
\* every later request of an auth-required operation carries
\* "Authorization: Bearer T", T being the token yielded latest before the
\* request; answers that yield no token do not end this.
C1_TokenPropagation ==
    \A n \in 1..Len(sent) :
        LET prior == {j \in 1..(n - 1) : yields[j] # None} IN
        (OpSeq[n].auth /\ prior # {}) =>
            /\ "Authorization" \in DOMAIN sent[n].headers
            /\ sent[n].headers.Authorization = <<"Bearer", yields[Max(prior)]>>

\* C2: after an operation has failed (transport failure or a status outside
\* its accepted set), every later operation of the sequence is still issued
\* and gets its own pass/fail line.
C2_ContinueOnError ==
    LatestFailed ~> (Len(sent) = NumOps /\ Len(report) = NumOps)

\* C3: wait_for_server returns True exactly at a poll answered with 200, that
\* poll being the first such one and among the first `timeout` polls; any
\* other status and any exception leave it polling; after it has returned it
\* polls no more.
C3_ReadyAtFirst200 ==
    /\ [](/\ (lastPoll.kind = "response" /\ lastPoll.status_code = 200)
               <=> (waitResult = "True")
          /\ waitResult = "True" => (polls = i + 1 /\ polls <= timeout))
    /\ [][waitResult # None => polls' = polls]_vars

\* five polls without a 200, then a 200, with timeout 30: True after 6 polls
C3_Witness ==
    /\ timeout = DefaultTimeout
    /\ waitResult = "True"
    /\ i = 5
    /\ polls = 6

\* C4: when none of the first `timeout` polls is answered with 200,
\* wait_for_server returns False after exactly `timeout` polls, and the run
\* exits with status 1 having issued no operation, printed no pass/fail line
\* and no completion banner.
C4_TimeoutAborts ==
    /\ [](/\ polls <= timeout
          /\ waitResult = "False" =>
                /\ polls = timeout
                /\ sent = <<>> /\ report = <<>> /\ ~banner
                /\ pc \in {"main", "exit"}
          /\ pc = "exit" => (waitResult = "False" /\ exitStatus = 1)
          /\ (waitResult = "False" /\ Ended) => exitStatus = 1)
    /\ [][(pc = "main" /\ waitResult = "False") => pc' = "exit"]_vars

C4_Witness ==
    /\ pc = "exit"
    /\ timeout = DefaultTimeout
    /\ polls = DefaultTimeout
    /\ exitStatus = 1

\* the same with a timeout of 0: no poll at all
C4_WitnessZero == pc = "exit" /\ timeout = 0 /\ polls = 0

\* C5: a transport failure never leaves api_request as an exception:
\* api_request returns None and the caller prints the operation as failed.
C5_TransportFailureContained ==
    outcome.kind = "transport" =>
        /\ response = NoResponse
        /\ pc # "crashed"
        /\ Len(report) = Len(sent)
        /\ report[Len(report)] = <<sent[Len(sent)].method, sent[Len(sent)].endpoint>>
        /\ ~lastPass

C5_Witness ==
    /\ outcome.kind = "transport"
    /\ Len(sent) = 7
    /\ pc = "get"

\* C6: once readiness has succeeded the process ends only after every
\* operation has been issued and the completion banner printed; the only
\* other exit is the readiness failure.
C6_NoEarlyTermination ==
    Ended => \/ pc = "exit" /\ waitResult = "False"
             \/ pc = "done" /\ banner /\ Len(sent) = NumOps

\* C9: in a run that passes readiness the operations are issued in the fixed
\* order, none skipped, repeated or reordered, and by the end of the run each
\* has been issued exactly once.
C9_FixedOrder ==
    /\ Len(sent) <= NumOps
    /\ \A n \in 1..Len(sent) :
          /\ sent[n].method = OpSeq[n].method
          /\ sent[n].endpoint = OpSeq[n].endpoint
    /\ (Ended /\ waitResult = "True") => Len(sent) = NumOps

\* the operations that release or end what the run created
Destructive == {"stop", "delete", "logout"}

\* C10 as stated: stop, delete and logout are each issued after every
\* non-destructive operation of the run.
C10_DestructiveLast ==
    \A n \in 1..Len(sent) : \A d \in Destructive :
        IsOp(n, d) => \A o \in OpNames \ Destructive : IssuedBefore(o, n)

\* C10 amended: delete and logout are issued after every other operation of
\* the run, delete before logout; stop is issued after the other service
\* operations and before the logs, recording, ai, codegen and config ones.
C10_CleanupLast ==
    \A n \in 1..Len(sent) :
        /\ IsOp(n, "delete") =>
              /\ \A o \in OpNames \ {"delete", "logout"} : IssuedBefore(o, n)
              /\ ~IssuedBefore("logout", n)
        /\ IsOp(n, "logout") =>
              \A o \in OpNames \ {"logout"} : IssuedBefore(o, n)
        /\ IsOp(n, "stop") =>
              /\ \A o \in {"list", "create", "get", "start", "status"} :
                    IssuedBefore(o, n)
              /\ \A o \in {"logs", "recording", "ai", "codegen", "config",
                           "delete", "logout"} : ~IssuedBefore(o, n)

\* the logout, last request of a run that went through every stage
C10_Witness ==
    /\ Len(sent) = NumOps
    /\ IsOp(NumOps, "logout")
    /\ pc = "banner"


\* the request of the latest operation issued has been reported as passed
LatestReportedPass ==
    /\ Len(report) = Len(sent)
    /\ report[Len(report)] = <<sent[Len(sent)].method, sent[Len(sent)].endpoint>>
    /\ lastPass

\* the statuses the claims give for each operation's success
ClaimedAccepted(n) ==
    IF \/ (sent[n].method = "POST" /\ sent[n].endpoint = "/api/auth/register")
       \/ (sent[n].method = "POST" /\ sent[n].endpoint = "/api/services")
    THEN {200, 201} ELSE {200}

\* C12: every operation is reported as pass if and only if a response was
\* received and its status is in the operation's accepted set: {200, 201}
\* for POST /api/auth/register and POST /api/services, {200} for the others;
\* a transport failure is reported as fail.
C12_PassIffAccepted ==
    sent # <<>> =>
        /\ LatestReportedPass <=>
              (/\ outcome.kind = "response"
               /\ outcome.status_code \in ClaimedAccepted(Len(sent)))
        /\ outcome.kind = "transport" => (Len(report) = Len(sent) /\ ~lastPass)

\* C16: a register, login or refresh operation that fails, or that succeeds
\* with no usable token in its answer, leaves TOKEN as it was.
C16_NoTokenNoChange ==
    [][(/\ pc \in {"register", "login", "refresh"}
        /\ Len(yields') = Len(yields) + 1
        /\ yields'[Len(yields')] = None) => TOKEN' = TOKEN]_vars

\* C17: only register, login and refresh write TOKEN: every other operation
\* leaves it unchanged whatever its outcome, and the token held after
\* refresh is the one every auth-required request of the later stages
\* carries, the logout included.
C17_OnlyAuthOpsWriteToken ==
    /\ [][pc \notin {"register", "login", "refresh"} => TOKEN' = TOKEN]_vars
    /\ [](\A n \in 6..Len(sent) :
            IF TOKEN \notin {"None", ""}
            THEN /\ "Authorization" \in DOMAIN sent[n].headers
                 /\ sent[n].headers.Authorization = <<"Bearer", TOKEN>>
            ELSE "Authorization" \notin DOMAIN sent[n].headers)

\* the logout of a run whose refresh yielded a new token
C17_Witness ==
    /\ Len(sent) = NumOps
    /\ yields[2] = "abc"
    /\ yields[5] = "xyz"
    /\ TOKEN = "xyz"
    /\ sent[NumOps].endpoint = "/api/auth/logout"
    /\ sent[NumOps].headers.Authorization = <<"Bearer", "xyz">>

\* C19: at every point of the run each operation issued so far has exactly
\* one pass/fail line, the lines being in issue order, and there is no line
\* for an operation that was not issued.
C19_OneLinePerOperation ==
    /\ Len(report) = Len(sent)
    /\ \A n \in 1..Len(report) :
          report[n] = <<sent[n].method, sent[n].endpoint>>

(***************************************************************************)
(* Properties of src/webui/record_demo.py.                                 *)
(***************************************************************************)
\* the request in flight has been routed
Routed == request # NoRequest /\ answer # NoAnswer

\* C7: every request is handled by the responder of the earliest-registered
\* pattern that matches its URL, whatever later-registered patterns match
\* too; a request that matches no pattern goes to the real network.
C7_FirstRegisteredWins ==
    Routed =>
        IF Matching(routes, request.url) = {}
        THEN answer.kind = "network" /\ answer.route = 0
        ELSE \A m \in Matching(routes, request.url) : answer.route <= m

\* C8: a request with a method other than GET whose URL matches
\* **/api/services is passed to the real network by the handle_services
\* responder.
C8_NonGetServicesPassThrough ==
    (/\ script = "record_demo"
     /\ Routed
     /\ request.method # "GET"
     /\ GlobMatch(RouteTable[3].pattern, request.url)) =>
        /\ answer.handler = "handle_services"
        /\ answer.kind = "network"


\* C18: a request under **/api/ whose URL no earlier-registered rule of
\* record_demo matches is handled by the catch-all: POST, PUT and DELETE
\* get the generic 200 success body, every other method goes to the real
\* network.
C18_CatchAllByMethod ==
    (/\ script = "record_demo"
     /\ Routed
     /\ GlobMatch(RouteTable[NumRoutes].pattern, request.url)
     /\ \A k \in 1..(NumRoutes - 1) : ~GlobMatch(RouteTable[k].pattern, request.url)) =>
        /\ answer.handler = "handle_generic"
        /\ IF request.method \in {"POST", "PUT", "DELETE"}
           THEN /\ answer.kind = "fulfill"
                /\ answer.status = 200
                /\ answer.body = "generic success"
           ELSE answer.kind = "network"

\* GET /api/config, which only the catch-all matches, goes to the network
C18_Witness ==
    /\ script = "record_demo"
    /\ Routed
    /\ request.url = <<Origin, "/", "api", "/", "config">>
    /\ request.method = "GET"
    /\ answer.kind = "network"
    /\ answer.handler = "handle_generic"

\* C13: in record_demo's interaction sequence, when step k raises the
\* exception is caught once: one diagnostic screenshot is taken, step k is
\* not started again and no step after k is started.
C13_FailFastInteraction ==
    script = "record_demo" =>
        /\ Len(attempted) <= NumSteps
        /\ \A n \in 1..Len(attempted) : attempted[n] = Steps[n]
        /\ failedStep = 0 => screenshots = 0
        /\ failedStep # 0 =>
              /\ Len(attempted) = failedStep
              /\ dpc \in {"screenshot", "close", "returned"}
              /\ screenshots = IF dpc = "screenshot" THEN 0 ELSE 1

\* the click on sidebar-services raised and run() has returned
C13_Witness ==
    /\ script = "record_demo"
    /\ failedStep = 3
    /\ Len(attempted) = 3
    /\ screenshots = 1
    /\ dpc = "returned"

\* C14: in both scripts, on every exit path (normal completion, navigation
\* failure, interaction failure) the browser context and the browser
\* process have both been closed by the script when it ends.
C14_ClosedOnEveryExit ==
    dpc \in {"returned", "raised"} =>
        (browser = "closed" /\ context = "closed")

\* record_demo has returned from its navigation except clause, before any
\* interaction step, with context and browser closed
C14_Witness ==
    /\ script = "record_demo"
    /\ dpc = "returned"
    /\ attempted = <<>>
    /\ screenshots = 0
    /\ browser = "closed"
    /\ context = "closed"

\* C20: in verify_dashboard, once the navigation has succeeded, a timeout
\* of the wait for "Simulator Status" is swallowed: the service-card check
\* and the screenshot are each made exactly once, in that order, and the
\* browser is closed after them.
C20_LandmarkTimeoutSwallowed ==
    (script = "verify_dashboard" /\ landmark = "timeout") =>
        /\ dpc \in {"check_cards", "screenshot", "close", "returned"}
        /\ cardChecks = IF dpc = "check_cards" THEN 0 ELSE 1
        /\ screenshots = IF dpc \in {"check_cards", "screenshot"} THEN 0 ELSE 1
        /\ (browser = "closed") <=> (dpc = "returned")

C20_Witness ==
    /\ script = "verify_dashboard"
    /\ landmark = "timeout"
    /\ dpc = "returned"
    /\ cardChecks = 1
    /\ screenshots = 1
    /\ browser = "closed"

(***************************************************************************)
(* Properties of api_request called on its own.                            *)
(***************************************************************************)
Called == apiCall # NoCall /\ apiResult # NoResult

\* C11: a call with a supported method sends its request whether or not a
\* token is held; the request carries "Authorization: Bearer <token>" if
\* and only if the call is flagged auth-required and TOKEN is a non-empty
\* string at that moment.
C11_AuthorizationIffAuthAndToken ==
    (Called /\ apiCall.method \in {"GET", "POST", "PUT", "DELETE"}) =>
        /\ Len(apiResult.requests) = 1
        /\ apiResult.requests[1].method = apiCall.method
        /\ apiResult.requests[1].endpoint = apiCall.endpoint
        /\ LET h == apiResult.requests[1].headers IN
           IF apiCall.auth /\ TOKEN \notin {"None", ""}
           THEN "Authorization" \in DOMAIN h /\ h.Authorization = <<"Bearer", TOKEN>>
           ELSE "Authorization" \notin DOMAIN h

\* a login call made while a token is held
C11_Witness ==
    /\ Called
    /\ apiCall.method = "POST"
    /\ apiCall.endpoint = "/api/auth/login"
    /\ ~apiCall.auth
    /\ TOKEN = "abc"
    /\ Len(apiResult.requests) = 1

\* C15: a call with a method other than GET, POST, PUT, DELETE raises to its
\* caller and sends no request; it does not return the None of a transport
\* failure.
C15_UnsupportedMethodRaises ==
    (Called /\ apiCall.method \notin {"GET", "POST", "PUT", "DELETE"}) =>
        /\ apiResult.requests = <<>>
        /\ apiResult.raised

====
